---- MODULE Spec2Model ----
(***************************************************************************)
(* Model of tools/ghcr_prune.py: pruning of old untagged versions of GHCR  *)
(* container packages.  The program is modelled as a sequential state      *)
(* machine: the __main__ block, the "all" enumeration, the per-container   *)
(* listing and the per-version loop of container_prune, and the top-level  *)
(* exception handler.  The registry (GitHub REST API) is the environment:  *)
(* every response is drawn non-deterministically when the request is made. *)
(*                                                                         *)
(* Time is counted in units of 7.5 minutes, so that the 15 minute          *)
(* tag_window is 2 units and has an interior point.                        *)
(***************************************************************************)
EXTENDS Integers, Sequences, FiniteSets

(* ------------------------------ bounds -------------------------------- *)

\* longest version list a registry response carries
MaxVersions == 3
\* latest creation instant of a version (instants are 0..MaxTime)
MaxTime == 2
\* longest version list with a defective element
MaxDefective == 1

(* --------------------------- program constants ------------------------ *)

\* tag_window = timedelta(minutes=15)
TagWindow == 2

\* names of the container packages the registry may own
Names == {"a", "b"}
\* what a positional argument may be
ArgTokens == {"a", "all"}

\* str ordering used by sorted() on package names: "a" < "all" < "b"
NameRank(s) == CASE s = "a" -> 1 [] s = "all" -> 2 [] s = "b" -> 3

\* --prune-age (days, scaled to time units).  The clock reads MaxTime + k
\* for the k-th container, so the first cutoff is MaxTime (the newest
\* versions are too young) and the later ones lie beyond every version.
PruneAges == {1}

Times == 0..MaxTime

(* ------------------------ registry responses -------------------------- *)

\* What can be wrong with one element of a versions response that is valid
\* JSON: a missing key, an unparseable timestamp, a timestamp without zone.
Defects == {"none", "no_id", "no_created_at", "no_name", "no_tags",
            "bad_timestamp", "naive_timestamp"}

TagSets == {{}, {"latest"}}

Range(s) == {s[i] : i \in 1..Len(s)}

\* all sequences without repetition over S of length at most n
RECURSIVE InjSeqs(_, _)
InjSeqs(S, n) ==
    IF n = 0 THEN {<<>>}
    ELSE LET shorter == InjSeqs(S, n - 1)
         IN  shorter \cup {Append(p[1], p[2]) :
                              p \in {q \in shorter \X S : q[2] \notin Range(q[1])}}

\* a version as the API returns it; "defect" says which part of it, if any,
\* is absent or unusable
Version(i, t, tg, d) ==
    [id |-> i, name |-> <<"sha256", i>>, created_at |-> t, tags |-> tg,
     defect |-> d]

\* the orders in which a response may list the ids 1..n
IdOrders(n) == {s \in InjSeqs(1..n, n) : Len(s) = n}

\* which element of a list of n versions is defective, and how: a response
\* follows the API's schema, or is valid JSON with one defective element
DefectAssignments(n) ==
    {[i \in 1..n |-> "none"]} \cup
    IF n > MaxDefective THEN {}
    ELSE {[i \in 1..n |-> IF i = k THEN d ELSE "none"] :
             k \in 1..n, d \in Defects \ {"none"}}

\* outcome of the versions request: a list of versions, a transport or HTTP
\* error (raise_for_status), or a body that is not JSON
ResponseKinds == {"ok", "http_error", "invalid_json"}

\* lengths of the list a response of that kind carries
Lengths(kind) == IF kind = "ok" THEN 0..MaxVersions ELSE {0}

\* the package listing of "all": names in any order; "no_name" is a package
\* object without its "name" key
PackageResponses ==
    {[kind |-> "ok", body |-> l] : l \in InjSeqs(Names, Cardinality(Names))} \cup
    {[kind |-> k, body |-> <<>>] : k \in {"http_error", "invalid_json", "no_name"}}

DeleteResponses == {"ok", "http_error"}

(* ------------------------ container_prune helpers --------------------- *)

\* insertion of a name into an ascending list
RECURSIVE InsertName(_, _)
InsertName(x, s) ==
    IF s = <<>> THEN <<x>>
    ELSE IF NameRank(x) < NameRank(Head(s)) THEN <<x>> \o s
    ELSE <<Head(s)>> \o InsertName(x, Tail(s))

\* line 82: sorted([pkg["name"] for pkg in ...])
RECURSIVE SortedNames(_)
SortedNames(l) ==
    IF l = <<>> THEN <<>>
    ELSE InsertName(l[Len(l)], SortedNames(SubSeq(l, 1, Len(l) - 1)))


\* dateutil.parser.parse(version['created_at']): the exception it ends in,
\* or "none".  A missing key is a KeyError, an unparseable string a
\* ParserError, which is a ValueError.
ParseError(v) ==
    CASE v.defect = "no_created_at" -> "KeyError"
      [] v.defect = "bad_timestamp" -> "ValueError"
      [] OTHER -> "none"

\* the datetime parse() returns: the instant, and whether it carries a zone
Parsed(v) == [t |-> v.created_at, aware |-> v.defect # "naive_timestamp"]

\* version["metadata"]["container"]["tags"]
TagsError(v) == IF v.defect = "no_tags" THEN "KeyError" ELSE "none"

\* lines 96-100: creation dates of the tagged versions, in response order;
\* stops at the first exception
RECURSIVE CollectTagged(_, _, _)
CollectTagged(vs, i, acc) ==
    IF i > Len(vs) THEN [exc |-> "none", list |-> acc]
    ELSE LET v == vs[i]
         IN  IF TagsError(v) # "none" THEN [exc |-> TagsError(v), list |-> acc]
             ELSE IF v.tags = {} THEN CollectTagged(vs, i + 1, acc)
             ELSE IF ParseError(v) # "none"
                  THEN [exc |-> ParseError(v), list |-> acc]
             ELSE CollectTagged(vs, i + 1, Append(acc, Parsed(v)))

\* line 105, key=lambda k: k["id"]: the key is taken of every element
SortError(vs) ==
    IF \E i \in 1..Len(vs) : vs[i].defect = "no_id" THEN "KeyError" ELSE "none"

\* the sort without reverse=True
RECURSIVE InsertAsc(_, _)
InsertAsc(v, s) ==
    IF s = <<>> THEN <<v>>
    ELSE IF v.id < Head(s).id THEN <<v>> \o s
    ELSE <<Head(s)>> \o InsertAsc(v, Tail(s))

\* insertion of v into a list that is descending by id, after its equals
RECURSIVE InsertDesc(_, _)
InsertDesc(v, s) ==
    IF s = <<>> THEN <<v>>
    ELSE IF v.id > Head(s).id THEN <<v>> \o s
    ELSE <<Head(s)>> \o InsertDesc(v, Tail(s))

\* line 105: sorted(versions, key=lambda k: k["id"], reverse=True)
RECURSIVE SortedById(_)
SortedById(vs) ==
    IF vs = <<>> THEN <<>>
    ELSE InsertDesc(vs[Len(vs)], SortedById(SubSeq(vs, 1, Len(vs) - 1)))

\* the window with its end excluded: created < tag_created
InWindowExclusiveEnd(created, tag_created) ==
    tag_created - TagWindow < created /\ created < tag_created

\* the window with its start included: tag_created-tag_window <= created
InWindowInclusiveStart(created, tag_created) ==
    tag_created - TagWindow <= created /\ created <= tag_created

\* line 112: tag_created-tag_window < created <= tag_created
InWindow(created, tag_created) ==
    tag_created - TagWindow < created /\ created <= tag_created

\* lines 111-114: the scan of tagged_created for an aware `created`:
\* "break" at the first window that holds it, "else" when none does,
\* TypeError on meeting a date without zone before that
RECURSIVE ProtectScan(_, _, _)
ProtectScan(tc, i, created) ==
    IF i > Len(tc) THEN "else"
    ELSE IF ~tc[i].aware THEN "TypeError"
    ELSE IF InWindow(created, tc[i].t) THEN "break"
    ELSE ProtectScan(tc, i + 1, created)

\* the age test with the cutoff included: created <= del_before
IsOldInclusive(created, cutoff) == created <= cutoff

\* line 108: created < del_before
IsOld(created, cutoff) == created < cutoff

\* the loop body with the age test alone: no look at the tags, no scan of
\* the tagged versions' dates
DecideByAgeOnly(v, cutoff, tc) ==
    IF ParseError(v) # "none" THEN ParseError(v)
    ELSE IF ~Parsed(v).aware THEN "TypeError"
    ELSE IF IsOld(v.created_at, cutoff) THEN "prune"
    ELSE "skip"

\* lines 107-114: what the loop body decides for one version before any
\* request: an exception, "skip", or "prune".  The tags are looked at only
\* when the age test passed (`and` short-circuits).
Decide(v, cutoff, tc) ==
    IF ParseError(v) # "none" THEN ParseError(v)
    ELSE IF ~Parsed(v).aware THEN "TypeError"
    ELSE IF ~IsOld(v.created_at, cutoff) THEN "skip"
    ELSE IF TagsError(v) # "none" THEN TagsError(v)
    ELSE IF v.tags # {} THEN "skip"
    ELSE LET scan == ProtectScan(tc, 1, v.created_at)
         IN  CASE scan = "TypeError" -> "TypeError"
               [] scan = "break" -> "skip"
               [] OTHER -> "prune"

\* "all" taken as the request for every container wherever it stands
IsAllAnywhere(cs) == \E i \in 1..Len(cs) : cs[i] = "all"

\* line 78: the argument list that asks for every owned container
IsAll(cs) == Len(cs) = 1 /\ cs[1] = "all"

\* the delete sent whatever --dry-run says
SendsDeleteAlways(dry) == TRUE

\* line 115: whether a pruned version is deleted in the registry
SendsDelete(dry) == ~dry

\* lines 138-146: the exceptions the top level turns into one line
Caught == {"JSONDecodeError", "RequestException", "ValueError"}

(* ------------------------------- state -------------------------------- *)

VARIABLES
    argv,            \* args.container
    token,           \* 'GHCR_TOKEN' in os.environ
    prune_age,       \* args.prune_age
    dry_run,         \* args.dry_run
    pc,              \* position in the program
    containers,      \* container_prune's `containers`
    ci,              \* index of `container` in containers
    now,             \* wall clock
    del_before,      \* cutoff of the current container
    sorted_versions, \* the sorted list that the loop of line 105 runs over
    resorted,        \* whether sorting changed the order of the response
    tagged_created,  \* creation dates of tagged versions
    vi,              \* index of `version` in the sorted list
    del_cnt,         \* versions reported for the current container
    stdout,          \* lines printed since the current container began
    requests,        \* requests sent since the current container began
    listed,          \* containers whose versions were requested, in order
    stderr,          \* "", "one_line" or "traceback"
    exit_code,       \* -1 while running
    raised           \* the exception that ended the run, or "none"

vars == <<argv, token, prune_age, dry_run, pc, containers, ci, now, del_before,
          sorted_versions, resorted, tagged_created, vi, del_cnt, stdout,
          requests, listed,
          stderr, exit_code, raised>>

inputs == <<argv, token, prune_age, dry_run>>
loopvars == <<del_before, sorted_versions, resorted, tagged_created, vi, del_cnt>>
exitvars == <<stderr, exit_code, raised>>

Line(k, c, n) == [kind |-> k, container |-> c, name |-> n]
Request(m, c, i, ok) == [method |-> m, container |-> c, id |-> i, ok |-> ok]

\* state after parser.parse_args()
Init ==
    /\ argv \in InjSeqs(ArgTokens, Cardinality(ArgTokens)) \ {<<>>}
    /\ token \in BOOLEAN
    /\ prune_age \in PruneAges
    /\ dry_run \in BOOLEAN
    /\ pc = "main"
    /\ containers = argv
    /\ ci = 1
    /\ now = MaxTime
    /\ del_before = 0
    /\ sorted_versions = <<>>
    /\ resorted = FALSE
    /\ tagged_created = <<>>
    /\ vi = 1
    /\ del_cnt = 0
    /\ stdout = <<>>
    /\ requests = <<>>
    /\ listed = <<>>
    /\ stderr = ""
    /\ exit_code = -1
    /\ raised = "none"

\* the exception reported and swallowed where it occurs: the loop over the
\* containers goes on
RaiseAndContinue(e) ==
    /\ pc' = "end_for"
    /\ raised' = e
    /\ stderr' = "one_line"
    /\ exit_code' = -1

\* an exception leaves container_prune: lines 138-146, or the interpreter's
\* traceback when no except clause matches
Raise(e) ==
    /\ pc' = "exited"
    /\ raised' = e
    /\ stderr' = IF e \in Caught THEN "one_line" ELSE "traceback"
    /\ exit_code' = 1

\* lines 127-133
Main ==
    /\ pc = "main"
    /\ IF token
       THEN /\ pc' = "prune"
            /\ UNCHANGED exitvars
       ELSE /\ pc' = "exited"
            /\ stderr' = "one_line"
            /\ exit_code' = 1
            /\ raised' = "SystemExit"
    /\ UNCHANGED <<inputs, containers, ci, now, loopvars, stdout, requests,
                   listed>>

\* lines 77-82
AllContainers ==
    /\ pc = "prune"
    /\ IF IsAll(containers)
       THEN \E resp \in PackageResponses :
              /\ requests' = Append(requests,
                                    Request("GET", "", 0, resp.kind # "http_error"))
              /\ CASE resp.kind = "http_error" ->
                        Raise("RequestException") /\ UNCHANGED containers
                   [] resp.kind = "invalid_json" ->
                        Raise("JSONDecodeError") /\ UNCHANGED containers
                   [] resp.kind = "no_name" ->
                        Raise("KeyError") /\ UNCHANGED containers
                   [] OTHER ->
                        /\ containers' = SortedNames(resp.body)
                        /\ pc' = "for_container"
                        /\ UNCHANGED exitvars
       ELSE /\ pc' = "for_container"
            /\ UNCHANGED <<containers, requests, exitvars>>
    /\ UNCHANGED <<inputs, ci, now, loopvars, stdout, listed>>

\* lines 85-105: the header line, the cutoff, the versions listing, the dates
\* of the tagged versions and the sort.  The clock has moved on by one unit
\* since it was last read.  stdout and requests start afresh.  The response
\* itself is not read again after the sort and is not kept.
ForContainer ==
    /\ pc = "for_container"
    /\ ci <= Len(containers)
    /\ stdout' = <<Line("pruning", containers[ci], <<>>)>>
    /\ now' = now + 1
    /\ del_before' = now' - prune_age
    /\ listed' = Append(listed, containers[ci])
    /\ \E kind \in ResponseKinds : \E n \in Lengths(kind) :
       \E ord \in IdOrders(n) : \E ts \in [1..n -> Times] :
       \E tg \in [1..n -> TagSets] : \E df \in DefectAssignments(n) :
          LET versions == [i \in 1..n |-> Version(ord[i], ts[i], tg[i], df[i])]
              collected == CollectTagged(versions, 1, <<>>)
          IN  /\ requests' = <<Request("GET", containers[ci], 0,
                                       kind # "http_error")>>
              /\ CASE kind = "http_error" ->
                        /\ Raise("RequestException")
                        /\ UNCHANGED <<sorted_versions, resorted, tagged_created>>
                   [] kind = "invalid_json" ->
                        /\ Raise("JSONDecodeError")
                        /\ UNCHANGED <<sorted_versions, resorted, tagged_created>>
                   [] collected.exc # "none" ->
                        /\ Raise(collected.exc)
                        /\ tagged_created' = collected.list
                        /\ UNCHANGED <<sorted_versions, resorted>>
                   [] SortError(versions) # "none" ->
                        /\ Raise(SortError(versions))
                        /\ tagged_created' = collected.list
                        /\ UNCHANGED <<sorted_versions, resorted>>
                   [] OTHER ->
                        /\ tagged_created' = collected.list
                        /\ sorted_versions' = SortedById(versions)
                        /\ resorted' = (SortedById(versions) # versions)
                        /\ pc' = IF n = 0 THEN "end_for" ELSE "for_version"
                        /\ UNCHANGED exitvars
    /\ vi' = 1
    /\ del_cnt' = 0
    /\ UNCHANGED <<inputs, containers, ci>>

\* the loop over the sorted versions moves on
Advance ==
    /\ vi' = vi + 1
    /\ pc' = IF vi < Len(sorted_versions) THEN "for_version" ELSE "end_for"

\* lines 120-123: the report of one pruned version
Report(v) ==
    LET headed == IF del_cnt = 0
                  THEN Append(stdout, Line(IF dry_run THEN "would_delete"
                                                      ELSE "deleted",
                                           containers[ci], <<>>))
                  ELSE stdout
    IN  IF v.defect = "no_name"
        THEN /\ stdout' = headed
             /\ Raise("KeyError")
             /\ UNCHANGED <<vi, del_cnt>>
        ELSE /\ stdout' = Append(headed, Line("name", containers[ci], v.name))
             /\ del_cnt' = del_cnt + 1
             /\ Advance
             /\ UNCHANGED exitvars

\* lines 105-123: one iteration of the loop over the sorted versions
ForVersion ==
    /\ pc = "for_version"
    /\ LET v == sorted_versions[vi]
           d == Decide(v, del_before, tagged_created)
       IN  CASE d = "skip" ->
                  /\ Advance
                  /\ UNCHANGED <<del_cnt, stdout, requests, exitvars>>
             [] d = "prune" ->
                  IF ~SendsDelete(dry_run)
                  THEN Report(v) /\ UNCHANGED requests
                  ELSE \E r \in DeleteResponses :
                         /\ requests' = Append(requests,
                                Request("DELETE", containers[ci], v.id, r = "ok"))
                         /\ IF r = "ok"
                            THEN Report(v)
                            ELSE /\ Raise("RequestException")
                                 /\ UNCHANGED <<vi, del_cnt, stdout>>
             [] OTHER ->
                  /\ Raise(d)
                  /\ UNCHANGED <<vi, del_cnt, stdout, requests>>
    /\ UNCHANGED <<inputs, containers, ci, now, del_before, sorted_versions,
                   resorted, tagged_created, listed>>

\* line 85: the loop over the containers moves on; the locals of the
\* finished iteration are dead, and are cleared
NextContainer ==
    /\ pc = "end_for"
    /\ pc' = "for_container"
    /\ ci' = ci + 1
    /\ sorted_versions' = <<>>
    /\ resorted' = FALSE
    /\ tagged_created' = <<>>
    /\ vi' = 1
    /\ del_cnt' = 0
    /\ stdout' = <<>>
    /\ requests' = <<>>
    /\ UNCHANGED <<inputs, containers, now, del_before, listed, exitvars>>

\* container_prune returns and the interpreter exits with status 0
Return ==
    /\ pc = "for_container"
    /\ ci > Len(containers)
    /\ pc' = "done"
    /\ exit_code' = 0
    /\ UNCHANGED <<inputs, containers, ci, now, loopvars, stdout, requests,
                   listed, stderr, raised>>

Next ==
    \/ Main
    \/ AllContainers
    \/ ForContainer
    \/ ForVersion
    \/ NextContainer
    \/ Return

Spec == Init /\ [][Next]_vars

(* --------------------- vocabulary of the properties ------------------- *)

IsDelete(r) == r.method = "DELETE"
IsOkDelete(r) == r.method = "DELETE" /\ r.ok
IsNameLine(l) == l.kind = "name"
IsHeaderLine(l) == l.kind \in {"deleted", "would_delete"}

\* the delete calls of the current container, in the order issued
DeleteCalls == SelectSeq(requests, IsDelete)
\* ids of the versions whose delete call succeeded, in order
DeletedIds ==
    LET s == SelectSeq(requests, IsOkDelete) IN [i \in 1..Len(s) |-> s[i].id]
\* ids of the versions whose name was printed, in order
ReportedIds ==
    LET s == SelectSeq(stdout, IsNameLine) IN [i \in 1..Len(s) |-> s[i].name[2]]

\* v was the target of a delete call or was named in the report
Selected(v) ==
    \/ \E i \in 1..Len(DeleteCalls) : DeleteCalls[i].id = v.id
    \/ \E i \in 1..Len(ReportedIds) : ReportedIds[i] = v.id

\* a listing has been taken and its versions are being, or were, processed
InLoop == pc \in {"for_version", "end_for"} \/
          (pc = "exited" /\ sorted_versions # <<>>)

\* the three conditions of the retention decision
Protects(w, v) ==
    /\ w.tags # {}
    /\ w.created_at - TagWindow < v.created_at
    /\ v.created_at <= w.created_at
Protected(v) == \E i \in 1..Len(sorted_versions) : Protects(sorted_versions[i], v)
Eligible(v) == v.tags = {} /\ v.created_at < del_before /\ ~Protected(v)
EligibleIds == {sorted_versions[i].id : i \in {j \in 1..Len(sorted_versions) : Eligible(sorted_versions[j])}}

StrictlyDescending(s) == \A i \in 1..(Len(s) - 1) : s[i] > s[i + 1]

(* ------------------------------ properties ---------------------------- *)

\* C1: no delete call is issued for, and no report line names, a version
\* whose tag list is non-empty, whatever its age and whatever --prune-age.
C1_TaggedNeverSelected ==
    \A i \in 1..Len(sorted_versions) :
        sorted_versions[i].tags # {} => ~Selected(sorted_versions[i])

\* a container was pruned to the end, something was pruned, and a tagged
\* version older than the cutoff was left alone
C1_Witness ==
    /\ pc = "end_for"
    /\ DeletedIds # <<>>
    /\ \E i \in 1..Len(sorted_versions) :
          /\ sorted_versions[i].tags # {}
          /\ sorted_versions[i].created_at < del_before

\* C2: the cutoff of a container is the clock read for that container minus
\* prune_age, and every version deleted or reported was created strictly
\* before it.
C2_SelectedOlderThanCutoff ==
    InLoop =>
        /\ del_before = now - prune_age
        /\ now = MaxTime + Len(listed)
        /\ \A i \in 1..Len(sorted_versions) :
              Selected(sorted_versions[i]) => sorted_versions[i].created_at < del_before

\* a container was pruned to the end: a version was deleted, and an
\* untagged version outside every window, created exactly at the cutoff,
\* was kept
C2_Witness ==
    /\ pc = "end_for"
    /\ DeletedIds # <<>>
    /\ \E i \in 1..Len(sorted_versions) :
          /\ sorted_versions[i].tags = {}
          /\ sorted_versions[i].created_at = del_before
          /\ ~Protected(sorted_versions[i])
          /\ ~Selected(sorted_versions[i])

\* C3: an untagged version created within (t - 15min, t] of the creation
\* time t of any tagged version of the same listing is never deleted or
\* reported, even when it is older than the cutoff: created_at = t is
\* protected.  The window ends there: once the container is pruned to the
\* end, an old untagged version that no tagged version holds in its window,
\* one created exactly at t - 15min included, has been selected.
C3_ProtectedNeverSelected ==
    /\ \A i, j \in 1..Len(sorted_versions) :
          LET v == sorted_versions[i]
              t == sorted_versions[j].created_at
          IN  (/\ sorted_versions[j].tags # {}
               /\ t - TagWindow < v.created_at
               /\ v.created_at <= t) => ~Selected(v)
    /\ pc = "end_for" =>
          \A i \in 1..Len(sorted_versions) :
              LET v == sorted_versions[i]
              IN  (/\ v.tags = {}
                   /\ v.created_at < del_before
                   /\ \A j \in 1..Len(sorted_versions) :
                         LET t == sorted_versions[j].created_at
                         IN  sorted_versions[j].tags # {} =>
                                (v.created_at <= t - TagWindow \/ v.created_at > t))
                  => Selected(v)

\* a container was pruned to the end; an old untagged version lying in the
\* overlapping windows of two tagged versions with different creation times,
\* at the inclusive bound of one of them, was kept
C3_Witness ==
    /\ pc = "end_for"
    /\ ~dry_run
    /\ \E i, j, k \in 1..Len(sorted_versions) :
          /\ j # k
          /\ sorted_versions[i].tags = {}
          /\ sorted_versions[i].created_at < del_before
          /\ Protects(sorted_versions[j], sorted_versions[i])
          /\ Protects(sorted_versions[k], sorted_versions[i])
          /\ sorted_versions[j].created_at # sorted_versions[k].created_at
          /\ sorted_versions[i].created_at = sorted_versions[j].created_at
          /\ ~Selected(sorted_versions[i])

\* C4: when a container has been pruned to the end (no request failed), the
\* versions selected are exactly the untagged versions strictly older than
\* the cutoff and outside every tagged version's window: all of them are
\* reported, and in live mode all of them are deleted.
C4_SelectedEqualsEligible ==
    pc = "end_for" =>
        /\ Range(ReportedIds) = EligibleIds
        /\ ~dry_run => Range(DeletedIds) = EligibleIds

\* a live run pruned a container to the end: a version created exactly
\* t - 15min before the tagged version was deleted, while a version created
\* exactly at t, as old as the other needs to be, was kept
C4_Witness ==
    /\ pc = "end_for"
    /\ ~dry_run
    /\ \E i, j, k \in 1..Len(sorted_versions) :
          /\ sorted_versions[j].tags # {}
          /\ sorted_versions[i].tags = {} /\ sorted_versions[k].tags = {}
          /\ sorted_versions[i].created_at = sorted_versions[j].created_at - TagWindow
          /\ sorted_versions[k].created_at = sorted_versions[j].created_at
          /\ sorted_versions[k].created_at < del_before
          /\ sorted_versions[i].id \in Range(DeletedIds)
          /\ ~Selected(sorted_versions[k])

\* C5: the delete calls and the report lines of a container follow the ids
\* from highest to lowest, whatever the order of the listing: both sequences
\* are strictly descending at every moment, and once the container is pruned
\* to the end both are the eligible versions sorted by id descending, one
\* delete call for each in live mode.
C5_DescendingIdOrder ==
    LET called == [i \in 1..Len(DeleteCalls) |-> DeleteCalls[i].id]
    IN  /\ StrictlyDescending(called)
        /\ StrictlyDescending(ReportedIds)
        /\ pc = "end_for" =>
              /\ Range(ReportedIds) = EligibleIds
              /\ Len(ReportedIds) = Cardinality(EligibleIds)
              /\ ~dry_run => called = ReportedIds

\* a live run pruned to the end a container whose three versions the
\* registry had not listed from highest id to lowest, and deleted all three
C5_Witness ==
    /\ pc = "end_for"
    /\ ~dry_run
    /\ resorted
    /\ Len(sorted_versions) = 3
    /\ Len(DeletedIds) = 3

\* C6: a dry run issues no delete call, and what it lists under
\* "Would delete:" once a container is pruned to the end is what a live run
\* deletes on the same listing and cutoff: the eligible versions, by id
\* descending.
C6_DryRunDeletesNothing ==
    dry_run =>
        /\ DeleteCalls = <<>>
        /\ \A i \in 1..Len(stdout) : stdout[i].kind # "deleted"
        /\ ReportedIds # <<>> =>
              \E i \in 1..Len(stdout) : stdout[i].kind = "would_delete"
        /\ pc = "end_for" =>
              /\ StrictlyDescending(ReportedIds)
              /\ Range(ReportedIds) = EligibleIds

\* a dry run went through a container that has two eligible versions and
\* listed both
C6_Witness ==
    /\ dry_run
    /\ pc = "end_for"
    /\ Cardinality(EligibleIds) = 2
    /\ Len(ReportedIds) = 2
    /\ requests = <<Request("GET", containers[ci], 0, TRUE)>>

\* C7: a failed request is the last request of the run: the run is over at
\* once with a non-zero exit status, nothing is retried and no step follows.
\* Containers are taken one after another in the order of the list, and each
\* request made while a container is pruned concerns that container.
C7_FailureEndsRun ==
    /\ \A i \in 1..Len(requests) :
          ~requests[i].ok =>
              /\ i = Len(requests)
              /\ pc = "exited"
              /\ raised = "RequestException"
              /\ exit_code = 1
    /\ pc = "exited" => exit_code # 0 /\ ~ENABLED Next
    /\ \A i, j \in 1..Len(requests) :
          (i < j) => (requests[i].method # requests[j].method
                      \/ requests[i].id # requests[j].id)
    /\ Len(listed) <= Len(containers)
    /\ listed = SubSeq(containers, 1, Len(listed))
    /\ Len(listed) \in {ci - 1, ci}
    /\ pc \in {"for_version", "end_for"} =>
          /\ Len(listed) = ci
          /\ \A i \in 1..Len(requests) : requests[i].container = containers[ci]

\* the first of two containers: one version was deleted, the next delete
\* call failed, the run is over and an eligible version is left untouched
C7_Witness ==
    /\ pc = "exited"
    /\ Len(containers) = 2
    /\ listed = <<containers[1]>>
    /\ Len(DeletedIds) = 1
    /\ Len(DeleteCalls) = 2
    /\ ~DeleteCalls[2].ok
    /\ \E i \in 1..Len(sorted_versions) :
          Eligible(sorted_versions[i]) /\ ~Selected(sorted_versions[i])

\* C8, as stated: an argument list that holds "all" together with other
\* names is not processed as a mix; "all" is never the name of a container
\* whose versions are listed.
C8_AllNeverLiteral ==
    \A i \in 1..Len(listed) : listed[i] # "all"

\* C8, amended: the owned packages are enumerated exactly when "all" is the
\* only argument, and then the containers pruned are the sorted package
\* names; any other argument list is pruned as given, "all" included as the
\* literal name of a container.
C8_AllOnlyWhenAlone ==
    /\ pc \notin {"main", "prune", "exited"} =>
          IF argv = <<"all">>
          THEN /\ Range(containers) \subseteq Names
               /\ \A i \in 1..(Len(containers) - 1) :
                     NameRank(containers[i]) < NameRank(containers[i + 1])
          ELSE containers = argv
    /\ listed = SubSeq(containers, 1, Len(listed))
    /\ (Len(argv) > 1 /\ pc = "done") => listed = argv

\* "all" came with another name: its versions were listed under the name
\* "all" and the container was pruned to the end
C8_Witness ==
    /\ Len(argv) = 2
    /\ pc = "end_for"
    /\ containers[ci] = "all"
    /\ listed[Len(listed)] = "all"
    /\ ReportedIds # <<>>

\* C9, as stated: whatever ends the run early, the process writes one line
\* to standard error and exits with a non-zero status.
C9_EveryFailureOneLine ==
    pc = "exited" => stderr = "one_line" /\ exit_code # 0

\* C10, as stated: in live mode the names printed so far are exactly the
\* versions deleted so far, and the "Deleted:" header is printed at most
\* once per container and only after the first successful delete.
C10_ReportMatchesDeletions ==
    ~dry_run =>
        /\ ReportedIds = DeletedIds
        /\ Len(SelectSeq(stdout, IsHeaderLine)) <= 1
        /\ SelectSeq(stdout, IsHeaderLine) # <<>> => DeletedIds # <<>>

====
